---- MODULE Spec2Model ----
(***************************************************************************)
(* Model of the two scripts of the repository, both working on the single  *)
(* target file SwAutomationApp/test1.cs:                                   *)
(*   apply_rect_fix.py  (the Patcher)     read, verify, replace, write     *)
(*   show_lines.py      (the Line Finder) read, split, scan, print         *)
(* A text is a sequence of one-character strings.  The file on disk is a   *)
(* raw character sequence; read_text() and write_text() translate line     *)
(* endings as Python's text mode does.                                     *)
(*                                                                         *)
(* The two long literals of apply_rect_fix.py are kept token by token:     *)
(*   "F"   the common head of old and new, up to "..._Vertical"; it holds  *)
(*         the marker 'FullyDefineSketch' of show_lines.py                 *)
(*   "D"   the text only new has (" |" and the "..._Distance" line)        *)
(*   "\n"  the common tail ",\n  true, 1, null, 1, null, 1, 1);\n"         *)
(* so that old = head tail and new = head inserted tail, as in the source. *)
(* "D" also serves as ordinary text that is neither pattern nor marker.    *)
(***************************************************************************)
EXTENDS Integers, Sequences, FiniteSets, TLC

VARIABLES file, linesep, hist

vars == <<file, linesep, hist>>

\* ---- bounds ----
MaxLen == 5
MaxRuns == 2

\* ---- alphabet of the target file ----
Chars == {"F", "D", "\n", "\r"}

Contents == UNION {[1..k -> Chars] : k \in 0..MaxLen}

\* os.linesep of the platform the script runs on
LineSeps == {<<"\n">>, <<"\r", "\n">>}

\* ---- literals of the scripts ----
old == <<"F", "\n">>

newContainsOld == <<"F", "\n", "D">>

new == <<"F", "D", "\n">>

marker == <<"F">>

NoMatch == <<"n", "o", " ", "m", "a", "t", "c", "h">>

PatternNotFound == "pattern not found"

\* ---- Path.read_text(): text mode, universal newlines ----
RECURSIVE ReadTextUniversal(_)
ReadTextUniversal(raw) ==
    IF raw = <<>> THEN <<>>
    ELSE IF Head(raw) = "\r"
         THEN <<"\n">> \o ReadTextUniversal(
                  IF Len(raw) >= 2 /\ raw[2] = "\n" THEN Tail(Tail(raw))
                                                    ELSE Tail(raw))
         ELSE <<Head(raw)>> \o ReadTextUniversal(Tail(raw))

ReadTextNoTranslation(raw) == raw

ReadText(raw) == ReadTextUniversal(raw)

\* ---- Path.write_text(): text mode, "\n" written as os.linesep ----
RECURSIVE WriteText(_, _)
WriteText(sep, text) ==
    IF text = <<>> THEN <<>>
    ELSE (IF Head(text) = "\n" THEN sep ELSE <<Head(text)>>)
         \o WriteText(sep, Tail(text))

\* ---- str.find: lowest 1-based index of needle in hay at or after i, 0 if none ----
RECURSIVE FindFrom(_, _, _)
FindFrom(hay, needle, i) ==
    IF i + Len(needle) - 1 > Len(hay) THEN 0
    ELSE IF SubSeq(hay, i, i + Len(needle) - 1) = needle THEN i
    ELSE FindFrom(hay, needle, i + 1)

\* needle in hay
Contains(hay, needle) == FindFrom(hay, needle, 1) /= 0

\* str.replace(o, n): every occurrence, left to right, non-overlapping
RECURSIVE ReplaceEvery(_, _, _)
ReplaceEvery(text, o, n) ==
    LET i == FindFrom(text, o, 1) IN
    IF i = 0 THEN text
    ELSE SubSeq(text, 1, i - 1) \o n
         \o ReplaceEvery(SubSeq(text, i + Len(o), Len(text)), o, n)

\* str.replace(o, n, 1)
Replace1(text, o, n) ==
    LET i == FindFrom(text, o, 1) IN
    IF i = 0 THEN text
    ELSE SubSeq(text, 1, i - 1) \o n \o SubSeq(text, i + Len(o), Len(text))

\* ---- str.splitlines(): "\n", "\r" and "\r\n" end a line; no trailing empty line ----
\* (the other separators of splitlines, "\v" "\f" and so on, are not in Chars)
RECURSIVE SplitFrom(_, _)
SplitFrom(text, cur) ==
    IF text = <<>> THEN (IF cur = <<>> THEN <<>> ELSE <<cur>>)
    ELSE IF Head(text) = "\n" THEN <<cur>> \o SplitFrom(Tail(text), <<>>)
    ELSE IF Head(text) = "\r"
         THEN <<cur>> \o SplitFrom(
                  IF Len(text) >= 2 /\ text[2] = "\n" THEN Tail(Tail(text))
                                                      ELSE Tail(text), <<>>)
    ELSE SplitFrom(Tail(text), Append(cur, Head(text)))

SplitLines(text) == SplitFrom(text, <<>>)

\* ---- f"{k:04d}": sign, then the decimal digits zero-filled to width 4 ----
FormatWidth == 4

DigitChar(d) == <<"0", "1", "2", "3", "4", "5", "6", "7", "8", "9">>[d + 1]

RECURSIVE Digits(_)
Digits(k) == IF k < 10 THEN <<DigitChar(k)>>
             ELSE Append(Digits(k \div 10), DigitChar(k % 10))

RECURSIVE ZeroFill(_, _)
ZeroFill(ds, width) == IF Len(ds) >= width THEN ds
                       ELSE ZeroFill(<<"0">> \o ds, width)

Format04d(k) ==
    IF k < 0 THEN <<"-">> \o ZeroFill(Digits(0 - k), FormatWidth - 1)
    ELSE ZeroFill(Digits(k), FormatWidth)

\* ---- list indexing lines[j]: a negative j counts from the end ----
\* position (0-based) that lines[j] reads, or -1 where it raises IndexError
ListPos(n, j) == IF j >= 0 /\ j < n THEN j
                 ELSE IF j < 0 /\ j >= 0 - n THEN n + j
                 ELSE -1

Min2(a, b) == IF a <= b THEN a ELSE b

\* ---- show_lines.py ----
\* for idx,line in enumerate(lines): if marker in line -> idx (0-based), -1 if none
RECURSIVE FirstMatchFrom(_, _)
FirstMatchFrom(lines, idx) ==
    IF idx >= Len(lines) THEN -1
    ELSE IF Contains(lines[idx + 1], marker) THEN idx
    ELSE FirstMatchFrom(lines, idx + 1)

\* for j in range(j, stop): print(f"{j+1:04d}: {lines[j]}")
\* out: the lines printed; pos: the list positions read; exit, err: how it ended
RECURSIVE PrintRange(_, _, _)
PrintRange(lines, j, stop) ==
    IF j >= stop THEN [out |-> <<>>, pos |-> <<>>, exit |-> 0, err |-> ""]
    ELSE LET p == ListPos(Len(lines), j) IN
         IF p = -1
         THEN [out |-> <<>>, pos |-> <<>>, exit |-> 1, err |-> "IndexError"]
         ELSE LET rest == PrintRange(lines, j + 1, stop) IN
              [out  |-> <<Format04d(j + 1) \o <<":", " ">> \o lines[p + 1]>> \o rest.out,
               pos  |-> <<p>> \o rest.pos,
               exit |-> rest.exit,
               err  |-> rest.err]

LineFinderAlwaysNotice(lines) ==
    LET idx == FirstMatchFrom(lines, 0)
        r == IF idx = -1 THEN [out |-> <<>>, pos |-> <<>>, exit |-> 0, err |-> ""]
             ELSE PrintRange(lines, idx - 2, Min2(idx + 3, Len(lines)))
    IN IF r.exit = 0 THEN [r EXCEPT !.out = Append(r.out, NoMatch)] ELSE r

\* the for ... break ... else of show_lines.py
LineFinder(lines) ==
    LET idx == FirstMatchFrom(lines, 0) IN
    IF idx = -1
    THEN [out |-> <<NoMatch>>, pos |-> <<>>, exit |-> 0, err |-> ""]
    ELSE PrintRange(lines, idx - 2, Min2(idx + 3, Len(lines)))

\* ---- apply_rect_fix.py ----
\* written: the texts handed to write_text, in order
PatcherNoVerify(text) ==
    [written |-> <<Replace1(text, old, new)>>, exit |-> 0, err |-> ""]

PatcherWriteFirst(text) ==
    IF ~Contains(text, old)
    THEN [written |-> <<Replace1(text, old, new)>>, exit |-> 1, err |-> PatternNotFound]
    ELSE [written |-> <<Replace1(text, old, new)>>, exit |-> 0, err |-> ""]

Patcher(text) ==
    IF ~Contains(text, old)
    THEN [written |-> <<>>, exit |-> 1, err |-> PatternNotFound]
    ELSE [written |-> <<Replace1(text, old, new)>>, exit |-> 0, err |-> ""]

\* ---- the state machine: one action per script run ----
Init ==
    /\ file \in Contents
    /\ linesep \in LineSeps
    /\ hist = <<>>

RunPatcher ==
    /\ Len(hist) < MaxRuns
    /\ LET r == Patcher(ReadText(file))
           after == IF r.written = <<>> THEN file
                    ELSE WriteText(linesep, r.written[Len(r.written)])
       IN /\ file' = after
          /\ hist' = Append(hist, [tool |-> "patcher", before |-> file, after |-> after,
                                   exit |-> r.exit, err |-> r.err,
                                   writes |-> Len(r.written),
                                   out |-> <<>>, pos |-> <<>>])
    /\ UNCHANGED linesep

RunLineFinderRewrites ==
    /\ Len(hist) < MaxRuns
    /\ LET r == LineFinder(SplitLines(ReadText(file)))
           after == WriteText(linesep, ReadText(file))
       IN /\ file' = after
          /\ hist' = Append(hist, [tool |-> "finder", before |-> file, after |-> after,
                                   exit |-> r.exit, err |-> r.err, writes |-> 1,
                                   out |-> r.out, pos |-> r.pos])
    /\ UNCHANGED linesep

RunLineFinder ==
    /\ Len(hist) < MaxRuns
    /\ LET r == LineFinder(SplitLines(ReadText(file)))
       IN hist' = Append(hist, [tool |-> "finder", before |-> file, after |-> file,
                                exit |-> r.exit, err |-> r.err, writes |-> 0,
                                out |-> r.out, pos |-> r.pos])
    /\ UNCHANGED <<file, linesep>>

Next == RunPatcher \/ RunLineFinder

Spec == Init /\ [][Next]_vars

\* ---- vocabulary of the properties ----
Runs == 1..Len(hist)

PatcherRuns == {k \in Runs : hist[k].tool = "patcher"}

FinderRuns == {k \in Runs : hist[k].tool = "finder"}

\* start positions (1-based) of the occurrences of o in t
Occ(t, o) == {i \in 1..(Len(t) - Len(o) + 1) : SubSeq(t, i, i + Len(o) - 1) = o}

SetMin(S) == CHOOSE m \in S : \A x \in S : m <= x

RangeOf(q) == {q[i] : i \in 1..Len(q)}

\* the content a run found, as the scripts read it
TextBefore(k) == ReadText(hist[k].before)

TextAfter(k) == ReadText(hist[k].after)

LinesBefore(k) == SplitLines(TextBefore(k))

\* 0-based indices of the lines that contain the marker
MatchLines(lines) == {i \in 0..(Len(lines) - 1) : Occ(lines[i + 1], marker) /= {}}

\* t with the occurrence of o at position i replaced by n
Spliced(t, i, o, n) == SubSeq(t, 1, i - 1) \o n \o SubSeq(t, i + Len(o), Len(t))

\* the four decimal digits of k, 0 <= k <= 9999
Pad4(k) == <<DigitChar((k \div 1000) % 10), DigitChar((k \div 100) % 10),
             DigitChar((k \div 10) % 10), DigitChar(k % 10)>>

Max2(a, b) == IF a >= b THEN a ELSE b

\* the window of lines lo..hi (0-based, inclusive), each with its 1-based number
Window(lines, lo, hi) ==
    [k \in 1..(hi - lo + 1) |-> Pad4(lo + k) \o <<":", " ">> \o lines[lo + k]]

\* C1: a Patcher run on a content without oldText ends in the pattern-not-found
\* failure, performs no write, and leaves the file exactly as it was.
C1_NoMatchNoWrite ==
    \A k \in PatcherRuns :
        Occ(TextBefore(k), old) = {} =>
            /\ hist[k].exit = 1
            /\ hist[k].err = PatternNotFound
            /\ hist[k].writes = 0
            /\ hist[k].after = hist[k].before

\* a Patcher run has met a non-empty content holding newText but not oldText
C1_Witness ==
    \E k \in PatcherRuns :
        /\ Occ(TextBefore(k), old) = {}
        /\ Occ(TextBefore(k), new) /= {}
        /\ hist[k].exit = 1

\* C2: on a content with two or more occurrences of oldText the Patcher replaces
\* the first one only; the text before it and all the text after it, later
\* occurrences included, is what the file holds afterwards.
C2_FirstOccurrenceOnly ==
    \A k \in PatcherRuns :
        LET t == TextBefore(k) IN
        Cardinality(Occ(t, old)) >= 2 =>
            LET i == SetMin(Occ(t, old)) IN
            /\ TextAfter(k) = Spliced(t, i, old, new)
            /\ \A j \in Occ(t, old) \ {i} :
                   (j + Len(new) - Len(old)) \in Occ(TextAfter(k), old)

\* a Patcher run has succeeded on a content with two occurrences of oldText,
\* the first of them not at the start of the file
C2_Witness ==
    \E k \in PatcherRuns :
        /\ Cardinality(Occ(TextBefore(k), old)) >= 2
        /\ SetMin(Occ(TextBefore(k), old)) > 1
        /\ hist[k].exit = 0

\* C3 as stated: on a content with exactly one occurrence of oldText the Patcher
\* replaces it by newText, leaves the rest, and replacing newText back by oldText
\* in the patched content gives the original content.
C3_RoundTripAsStated ==
    \A k \in PatcherRuns :
        LET t == TextBefore(k) IN
        Cardinality(Occ(t, old)) = 1 =>
            /\ TextAfter(k) = Spliced(t, SetMin(Occ(t, old)), old, new)
            /\ Replace1(TextAfter(k), new, old) = t

\* C3 amended: the same, for a content that does not already hold newText; then
\* replacing the first, or every, newText back gives the original content.
C3_RoundTripWithoutNew ==
    \A k \in PatcherRuns :
        LET t == TextBefore(k) IN
        (Cardinality(Occ(t, old)) = 1 /\ Occ(t, new) = {}) =>
            /\ TextAfter(k) = Spliced(t, SetMin(Occ(t, old)), old, new)
            /\ Replace1(TextAfter(k), new, old) = t
            /\ ReplaceEvery(TextAfter(k), new, old) = t

\* a Patcher run has succeeded on a content with one oldText, no newText, text
\* on both sides of the occurrence, and a carriage return on disk
C3_Witness ==
    \E k \in PatcherRuns :
        LET t == TextBefore(k) IN
        /\ Cardinality(Occ(t, old)) = 1
        /\ Occ(t, new) = {}
        /\ SetMin(Occ(t, old)) > 1
        /\ SetMin(Occ(t, old)) + Len(old) <= Len(t)
        /\ "\r" \in RangeOf(hist[k].before)
        /\ hist[k].exit = 0

\* C4 as stated: after a Patcher run that succeeded, the Patcher run that
\* follows at once fails verification and leaves the file as it is.
C4_SecondRunFailsAsStated ==
    \A k \in PatcherRuns :
        (hist[k].exit = 0 /\ (k + 1) \in PatcherRuns) =>
            /\ hist[k + 1].exit = 1
            /\ hist[k + 1].writes = 0
            /\ hist[k + 1].after = hist[k + 1].before

\* C4 amended: the same, when the first run found exactly one occurrence of
\* oldText.
C4_SecondRunFailsAfterSingle ==
    \A k \in PatcherRuns :
        (/\ hist[k].exit = 0
         /\ Cardinality(Occ(TextBefore(k), old)) = 1
         /\ (k + 1) \in PatcherRuns) =>
            /\ hist[k + 1].exit = 1
            /\ hist[k + 1].err = PatternNotFound
            /\ hist[k + 1].writes = 0
            /\ hist[k + 1].after = hist[k + 1].before

\* two Patcher runs in a row, the first one successful on a single occurrence
C4_Witness ==
    \E k \in PatcherRuns :
        /\ hist[k].exit = 0
        /\ Cardinality(Occ(TextBefore(k), old)) = 1
        /\ (k + 1) \in PatcherRuns
        /\ hist[k + 1].before = hist[k].after

\* C5: when exactly one line, at 0-based index i of n lines, contains the marker,
\* the Line Finder prints exactly lines max(0, i-2) .. min(n-1, i+2), in order,
\* each with its 1-based four-digit number.
C5_ClampedWindow ==
    \A k \in FinderRuns :
        LET lines == LinesBefore(k)
            m == MatchLines(lines)
        IN Cardinality(m) = 1 =>
               LET i == SetMin(m) IN
               /\ hist[k].exit = 0
               /\ hist[k].out = Window(lines, Max2(0, i - 2),
                                       Min2(Len(lines) - 1, i + 2))

\* C6: every Line Finder run ends with success.
C6_FinderAlwaysSucceeds ==
    \A k \in FinderRuns : hist[k].exit = 0 /\ hist[k].err = ""

\* C7: a Patcher run fails exactly when oldText is absent from the content it
\* read; when present it succeeds after exactly one write of the full resulting
\* content, and when absent it writes nothing.
C7_FailIffAbsent ==
    \A k \in PatcherRuns :
        LET t == TextBefore(k) IN
        /\ (hist[k].exit /= 0) <=> (Occ(t, old) = {})
        /\ Occ(t, old) /= {} =>
               /\ hist[k].exit = 0
               /\ hist[k].writes = 1
               /\ Len(TextAfter(k)) = Len(t) - Len(old) + Len(new)
               /\ hist[k].after = WriteText(linesep, TextAfter(k))
        /\ Occ(t, old) = {} => (hist[k].writes = 0 /\ hist[k].after = hist[k].before)

\* both outcomes have happened: a successful Patcher run, then a failed one
C7_Witness ==
    \E k \in PatcherRuns :
        /\ hist[k].exit = 0 /\ hist[k].writes = 1
        /\ (k + 1) \in PatcherRuns
        /\ hist[k + 1].exit = 1 /\ hist[k + 1].writes = 0

\* C8: when no line contains the marker (the empty file included) the Line
\* Finder prints exactly the 'no match' notice and nothing else; when some line
\* contains the marker the notice is never printed.
C8_NoMatchNotice ==
    \A k \in FinderRuns :
        LET lines == LinesBefore(k) IN
        /\ MatchLines(lines) = {} => (hist[k].out = <<NoMatch>> /\ hist[k].pos = <<>>)
        /\ MatchLines(lines) /= {} => NoMatch \notin RangeOf(hist[k].out)

\* the Line Finder has run on a file of several lines, none with the marker
C8_Witness ==
    \E k \in FinderRuns :
        /\ Len(LinesBefore(k)) >= 2
        /\ MatchLines(LinesBefore(k)) = {}
        /\ hist[k].out = <<NoMatch>>

\* C9: a Line Finder run never changes the file, whatever its outcome.
C9_FinderLeavesFile ==
    \A k \in FinderRuns : hist[k].after = hist[k].before /\ hist[k].writes = 0

\* the Line Finder has printed a window from a file the Patcher had just
\* rewritten
C9_Witness ==
    \E k \in FinderRuns :
        /\ Len(hist[k].pos) >= 1
        /\ (k - 1) \in PatcherRuns
        /\ hist[k - 1].exit = 0
        /\ hist[k].before = hist[k - 1].after

\* C10: when two or more lines contain the marker the Line Finder prints one
\* window, around the first of them, and no line beyond index (first match + 2).
C10_SingleWindowAtFirstMatch ==
    \A k \in FinderRuns :
        LET lines == LinesBefore(k)
            m == MatchLines(lines)
        IN Cardinality(m) >= 2 =>
               LET i == SetMin(m) IN
               /\ Len(hist[k].out) <= 5
               /\ \A p \in RangeOf(hist[k].pos) : p <= i + 2

====
